---- MODULE Spec2Model ----
(***************************************************************************)
(* A model of the number plate recognition system (src/main.py,            *)
(* src/config.py): the OCR result fusion and plate validation of SmartOCR, *)
(* the DuplicateManager, the PerformanceMonitor, the DataManager and the   *)
(* frame loop of main().                                                   *)
(*                                                                         *)
(* Texts are sequences of one-character strings.  Confidences and frame    *)
(* rates are exact rationals [n |-> numerator, d |-> denominator] in       *)
(* lowest terms.  Clock readings are whole seconds.                        *)
(***************************************************************************)
EXTENDS Integers, Sequences, FiniteSets, TLC

VARIABLES
    now,            \* time.time(), in seconds
    today,          \* the calendar day of datetime.now()
    detected,       \* DuplicateManager.detected
    maxlen,         \* PerformanceMonitor.frame_times.maxlen
    frame_times,    \* PerformanceMonitor.frame_times
    hist,           \* every duration handed to add_frame_time, in order
    db,             \* rows of the plates table, in insertion order
    csv,            \* the export file: [exists, rows]
    saves,          \* every save_detection call so far: [data, fault, ret]
    pc,             \* where main() is
    FRAME_SKIP,     \* config.FRAME_SKIP
    camera,         \* the capture device: "closed", "open" or "released"
    frame_count,    \* main's frame_count
    frame_start,    \* main's frame_start
    plates,         \* the regions detectMultiScale gave for the frame
    idx,            \* the region the for loop is at
    display,        \* the detection boxes drawn on display_frame
    auto_save,      \* main's auto_save
    show_dashboard, \* main's show_dashboard
    stats,          \* main's stats, as last handed to draw_dashboard
    input,          \* the argument the next direct call is applied to
    last            \* the most recent call: its operation, arguments, outcome

clockVars == <<now, today>>
dupVars == <<detected>>
perfVars == <<maxlen, frame_times, hist>>
storeVars == <<db, csv, saves>>
loopVars == <<pc, FRAME_SKIP, camera, frame_count, frame_start, plates, idx,
              display, auto_save, show_dashboard, stats>>

vars == <<clockVars, dupVars, perfVars, storeVars, loopVars, input, last>>

(***************************************************************************)
(* Program constants (src/config.py).                                      *)
(***************************************************************************)
MIN_PLATE_LENGTH == 4
MAX_PLATE_LENGTH == 10
DUPLICATE_TIME_WINDOW == 5
PERFORMANCE_BUFFER_SIZE == 30
MIN_PLATE_AREA == 3000
MAX_PLATE_AREA == 50000
MIN_PLATE_WIDTH == 100
MIN_PLATE_HEIGHT == 30

(***************************************************************************)
(* Bounds of the model.                                                    *)
(***************************************************************************)
MaxTextLen == 11        \* longest text handed to validate_plate
MaxSubst == 2           \* characters of a text replaced by arbitrary ones
MaxTime == 7            \* last clock reading, in seconds
MaxPrepFaults == 1      \* preprocessing variants that raise for one region
MaxCapacity == 3        \* largest small capacity a PerformanceMonitor is built with
MaxSamples == 5         \* durations handed to add_frame_time
MaxSaves == 3           \* save_detection calls
MaxDay == 1             \* last calendar day
MaxFrames == 2          \* frames the capture device yields
MaxRegions == 2         \* regions the detector gives for one frame
MaxFrameSkip == 2       \* largest configured FRAME_SKIP
FrameTick == 3          \* seconds in one step of the loop's clock

(***************************************************************************)
(* Characters.                                                             *)
(***************************************************************************)
UpperSeq == <<"A", "B", "C", "D", "E", "F", "G", "H", "I", "J", "K", "L", "M",
              "N", "O", "P", "Q", "R", "S", "T", "U", "V", "W", "X", "Y", "Z">>
LowerSeq == <<"a", "b", "c", "d", "e", "f", "g", "h", "i", "j", "k", "l", "m",
              "n", "o", "p", "q", "r", "s", "t", "u", "v", "w", "x", "y", "z">>
UpperChars == {UpperSeq[i] : i \in 1..26}
LowerChars == {LowerSeq[i] : i \in 1..26}
DigitChars == {"0", "1", "2", "3", "4", "5", "6", "7", "8", "9"}
WhitespaceChars == {" ", "\n", "\t", "\r"}

\* The character class [A-Z0-9] of the validation pattern.
PlateClass(c) == c \in UpperChars \/ c \in DigitChars

\* The sample of characters texts are drawn from: upper case letters, digits,
\* a lower case letter, punctuation, a space and a newline.
Alphabet == {"A", "Z", "0", "9", "a", "-", " ", "\n"}

NoCall == [op |-> "none"]

(***************************************************************************)
(* SmartOCR.validate_plate                                                 *)
(***************************************************************************)
\* The length of the longest prefix of text from position 1 made of class
\* characters: what the greedy [A-Z0-9]+ consumes first.
RECURSIVE ClassRun(_, _)
ClassRun(text, k) ==
    IF k < Len(text) /\ PlateClass(text[k + 1]) THEN ClassRun(text, k + 1) ELSE k

\* `$` without re.MULTILINE, tried after k characters: the end of the string,
\* or just before a newline that is the last character of the string.
DollarAt(text, k) ==
    \/ k = Len(text)
    \/ k = Len(text) - 1 /\ text[Len(text)] = "\n"

\* re.match(r'^[A-Z0-9]+$', text): `+` takes the longest run and gives back
\* characters until `$` matches.
ReMatchPlate(text) ==
    \E k \in 1..ClassRun(text, 0) : DollarAt(text, k)

validate_plate(text) ==
    IF Len(text) < MIN_PLATE_LENGTH \/ Len(text) > MAX_PLATE_LENGTH
    THEN FALSE
    ELSE ReMatchPlate(text)

(***************************************************************************)
(* Direct calls of validate_plate on texts of every length up to           *)
(* MaxTextLen: a text of plate characters in which up to MaxSubst          *)
(* characters are replaced by characters of the Alphabet.                  *)
(***************************************************************************)
BaseChars == <<"A", "0", "Z", "9">>
BaseText(n) == [i \in 1..n |-> BaseChars[(i % 4) + 1]]

\* main() before it runs: nothing opened, nothing counted.
IdleLoop ==
    /\ pc = "idle"
    /\ FRAME_SKIP = 1
    /\ camera = "closed"
    /\ frame_count = 0
    /\ frame_start = 0
    /\ plates = <<>>
    /\ idx = 0
    /\ display = <<>>
    /\ auto_save = FALSE
    /\ show_dashboard = TRUE
    /\ stats = <<>>

\* A fresh process beside an empty store and no export file.
InitState ==
    /\ now = 0
    /\ today = 0
    /\ detected = <<>>
    /\ frame_times = <<>>
    /\ hist = <<>>
    /\ db = <<>>
    /\ csv = [exists |-> FALSE, rows |-> <<>>]
    /\ saves = <<>>
    /\ last = NoCall

InitCommon ==
    /\ InitState
    /\ IdleLoop
    /\ maxlen = PERFORMANCE_BUFFER_SIZE

InitValidate ==
    /\ InitCommon
    /\ \E n \in 0..MaxTextLen : input = [text |-> BaseText(n), subst |-> 0]

Substitute(i, c) ==
    /\ input.subst < MaxSubst
    /\ i \in 1..Len(input.text)
    /\ input.text[i] # c
    /\ input' = [text |-> [input.text EXCEPT ![i] = c], subst |-> input.subst + 1]
    /\ last' = NoCall
    /\ UNCHANGED <<clockVars, dupVars, perfVars, storeVars, loopVars>>

ValidateCall ==
    /\ last' = [op |-> "validate_plate", text |-> input.text,
                ret |-> validate_plate(input.text)]
    /\ UNCHANGED <<clockVars, dupVars, perfVars, storeVars, loopVars, input>>

NextValidate ==
    \/ \E i \in 1..MaxTextLen, c \in Alphabet : Substitute(i, c)
    \/ ValidateCall

SpecValidate == InitValidate /\ [][NextValidate]_vars

\* C2: validate_plate(T) is true if and only if the length of T lies in
\* [MIN_PLATE_LENGTH, MAX_PLATE_LENGTH] and every character of T is an
\* upper case ASCII letter or a digit.
C2_ValidateIffWellFormed ==
    last.op = "validate_plate" =>
        (last.ret <=>
            /\ MIN_PLATE_LENGTH <= Len(last.text)
            /\ Len(last.text) <= MAX_PLATE_LENGTH
            /\ \A i \in 1..Len(last.text) : PlateClass(last.text[i]))

(***************************************************************************)
(* The clock.  time.time() is read as a whole number of seconds and never  *)
(* goes back.                                                              *)
(***************************************************************************)
Tick ==
    /\ now < MaxTime
    /\ now' = now + 1
    /\ UNCHANGED <<today, dupVars, perfVars, storeVars, loopVars, input, last>>

(***************************************************************************)
(* DuplicateManager.is_duplicate.  An entry is <<plate, time>>.            *)
(***************************************************************************)
\* A mutation of IsExpired: an entry exactly DUPLICATE_TIME_WINDOW old expires.
IsExpiredAtWindow(entry, current_time) ==
    current_time - entry[2] >= DUPLICATE_TIME_WINDOW

\* The eviction test of the while loop.
IsExpired(entry, current_time) ==
    current_time - entry[2] > DUPLICATE_TIME_WINDOW

\* "Remove old entries": popleft while the head is expired.
RECURSIVE RemoveOld(_, _)
RemoveOld(entries, current_time) ==
    IF entries # <<>> /\ IsExpired(Head(entries), current_time)
    THEN RemoveOld(Tail(entries), current_time)
    ELSE entries

\* A mutation of HasPlate: only the newest entry is compared.
HasPlateNewest(entries, plate_text) ==
    entries # <<>> /\ entries[Len(entries)][1] = plate_text

\* "Check duplicates": the scan of the entries left.
HasPlate(entries, plate_text) ==
    \E i \in 1..Len(entries) : entries[i][1] = plate_text

\* The whole call: [ret |-> the value returned, detected |-> the deque after].
is_duplicate(entries, plate_text, current_time) ==
    LET kept == RemoveOld(entries, current_time)
    IN  IF HasPlate(kept, plate_text)
        THEN [ret |-> TRUE, detected |-> kept]
        ELSE [ret |-> FALSE,
              detected |-> Append(kept, <<plate_text, current_time>>)]

(***************************************************************************)
(* Direct calls of is_duplicate, for several texts, as the clock advances. *)
(***************************************************************************)
DupTexts == {<<"X", "Y", "Z", "1", "2", "3">>,
             <<"A", "B", "1", "2", "3", "4">>,
             <<"K", "A", "0", "1">>}

InitDup ==
    /\ InitCommon
    /\ input = <<>>

IsDuplicateCall(plate_text) ==
    LET r == is_duplicate(detected, plate_text, now)
    IN  /\ detected' = r.detected
        /\ last' = [op |-> "is_duplicate", text |-> plate_text, time |-> now,
                    before |-> detected, ret |-> r.ret]
        /\ UNCHANGED <<clockVars, perfVars, storeVars, loopVars, input>>

NextDup ==
    \/ Tick
    \/ \E plate_text \in DupTexts : IsDuplicateCall(plate_text)

SpecDup == InitDup /\ [][NextDup]_vars

\* The entries of a deque that hold plate_text.
EntriesOf(entries, plate_text) ==
    {i \in 1..Len(entries) : entries[i][1] = plate_text}

\* C1: a call is_duplicate(T) at time t, when no entry (T, t0) with
\* t - t0 <= DUPLICATE_TIME_WINDOW is held, returns false and records (T, t)
\* as the only entry of T; a call when such an entry is held returns true and
\* leaves that entry as it was, the only entry of T.  So a text recorded at t0
\* is a duplicate at every t <= t0 + window and is recorded anew by the first
\* call after it, whatever calls for other texts come between.
C1_DuplicateWindow ==
    last.op = "is_duplicate" =>
        LET T == last.text
            t == last.time
            held == {i \in EntriesOf(last.before, T) :
                        t - last.before[i][2] <= DUPLICATE_TIME_WINDOW}
        IN  /\ Cardinality(EntriesOf(detected, T)) = 1
            /\ held = {} =>
                   /\ last.ret = FALSE
                   /\ detected[Len(detected)] = <<T, t>>
            /\ held # {} =>
                   /\ last.ret = TRUE
                   /\ \A i \in held :
                          \E j \in 1..Len(detected) : detected[j] = last.before[i]
            /\ \A U \in DupTexts \ {T} :
                   \A i \in EntriesOf(last.before, U) :
                       t - last.before[i][2] <= DUPLICATE_TIME_WINDOW =>
                           \E j \in 1..Len(detected) : detected[j] = last.before[i]

\* A text recorded earlier, with the entry of another text recorded after it,
\* is asked about once its window has passed and is recorded anew.
C1_Witness ==
    /\ last.op = "is_duplicate"
    /\ last.ret = FALSE
    /\ \E i \in EntriesOf(last.before, last.text) :
           last.time - last.before[i][2] > DUPLICATE_TIME_WINDOW
    /\ Len(detected) >= 2
    /\ detected[Len(detected)] = <<last.text, last.time>>

(***************************************************************************)
(* Rationals.                                                              *)
(***************************************************************************)
RECURSIVE GCD(_, _)
GCD(a, b) == IF b = 0 THEN a ELSE GCD(b, a % b)

\* n / d in lowest terms, for n >= 0 and d > 0.
Rat(n, d) == LET g == GCD(n, d) IN [n |-> n \div g, d |-> d \div g]

RatLess(a, b) == a.n * b.d < b.n * a.d
RatLeq(a, b) == a.n * b.d <= b.n * a.d

(***************************************************************************)
(* SmartOCR.extract_text                                                   *)
(*                                                                         *)
(* What the OCR engine gives for one region is ocr.prep[m] (TRUE when the  *)
(* preprocessing of method m raises) and ocr.out[m][k], for method m and   *)
(* configuration k: [raises, data], where raises says that image_to_data   *)
(* raises and data is what it returns otherwise, a sequence of tokens      *)
(* [word, conf].                                                           *)
(***************************************************************************)
Methods == <<"Adaptive", "Otsu", "CLAHE">>
PsmConfigs == <<"PSM7", "PSM8">>

ToUpper(c) ==
    IF c \in LowerChars
    THEN UpperSeq[CHOOSE i \in 1..26 : LowerSeq[i] = c]
    ELSE c

\* str.upper()
Upper(text) == [i \in 1..Len(text) |-> ToUpper(text[i])]

\* str.replace(" ", "")
RemoveSpaces(text) == SelectSeq(text, LAMBDA c : c # " ")

\* str.strip(): leading and trailing whitespace removed.
RECURSIVE LStrip(_)
LStrip(text) ==
    IF text # <<>> /\ Head(text) \in WhitespaceChars THEN LStrip(Tail(text)) ELSE text

RECURSIVE RStrip(_)
RStrip(text) ==
    IF text # <<>> /\ text[Len(text)] \in WhitespaceChars
    THEN RStrip(SubSeq(text, 1, Len(text) - 1))
    ELSE text

Strip(text) == RStrip(LStrip(text))

\* The loop over data['text']: the words whose confidence is above 0, joined.
RECURSIVE JoinWords(_)
JoinWords(data) ==
    IF data = <<>> THEN <<>>
    ELSE (IF Head(data).conf > 0 THEN Head(data).word ELSE <<>>)
             \o JoinWords(Tail(data))

\* The confidences above 0, summed and counted.
RECURSIVE SumConf(_)
SumConf(data) ==
    IF data = <<>> THEN 0
    ELSE (IF Head(data).conf > 0 THEN Head(data).conf ELSE 0) + SumConf(Tail(data))

CountConf(data) == Len(SelectSeq(data, LAMBDA tok : tok.conf > 0))

\* text.strip().replace(" ", "").upper()
CleanText(data) == Upper(RemoveSpaces(Strip(JoinWords(data))))

\* A mutation of KeepsReading: the minimum length is not asked for.
KeepsAnyText(text) == text # <<>>

\* `if text and len(text) >= config.MIN_PLATE_LENGTH`
KeepsReading(text) == text # <<>> /\ Len(text) >= MIN_PLATE_LENGTH

\* avg_conf / 100, with avg_conf the mean of the confidences (0 without any).
ReadingConfidence(data) ==
    IF CountConf(data) > 0
    THEN Rat(SumConf(data), CountConf(data) * 100)
    ELSE Rat(0, 1)

\* The configurations of method m from the k-th on: every one is invoked
\* until one raises, which ends the method's try block.
RECURSIVE RunConfigs(_, _, _, _)
RunConfigs(acc, ocr, m, k) ==
    IF k > Len(PsmConfigs) THEN acc
    ELSE LET out == ocr.out[m][k]
             called == Append(acc.invoked, <<m, k>>)
         IN  IF out.raises
             THEN [acc EXCEPT !.invoked = called]
             ELSE LET text == CleanText(out.data)
                      kept == IF KeepsReading(text)
                              THEN Append(acc.results,
                                          <<text, ReadingConfidence(out.data),
                                            Methods[m]>>)
                              ELSE acc.results
                  IN  RunConfigs([results |-> kept, invoked |-> called], ocr, m, k + 1)

\* The loop over the methods from the m-th on.
RECURSIVE RunMethods(_, _, _)
RunMethods(acc, ocr, m) ==
    IF m > Len(Methods) THEN acc
    ELSE RunMethods(IF ocr.prep[m] THEN acc ELSE RunConfigs(acc, ocr, m, 1),
                    ocr, m + 1)

\* A mutation of Better: a later reading of equal confidence wins.
BetterOrEqual(r, best) == RatLeq(best[2], r[2])

\* What makes max() replace its best so far: a strictly greater key.
Better(r, best) == RatLess(best[2], r[2])

\* max(results, key=lambda x: x[1]), from the k-th reading on.
RECURSIVE MaxByConfidence(_, _, _)
MaxByConfidence(results, best, k) ==
    IF k > Len(results) THEN best
    ELSE MaxByConfidence(results,
                         IF Better(results[k], best) THEN results[k] ELSE best,
                         k + 1)

Sentinel == << <<>>, Rat(0, 1), "None" >>

\* The whole call: the value returned, with the results list and the
\* combinations the OCR engine was invoked for.
extract_text(ocr) ==
    LET acc == RunMethods([results |-> <<>>, invoked |-> <<>>], ocr, 1)
    IN  [ret |-> IF acc.results = <<>>
                 THEN Sentinel
                 ELSE MaxByConfidence(acc.results, acc.results[1], 2),
         results |-> acc.results,
         invoked |-> acc.invoked]

(***************************************************************************)
(* Direct calls of extract_text, for every assignment of an outcome to the *)
(* six combinations.                                                       *)
(***************************************************************************)
Tok(word, conf) == [word |-> word, conf |-> conf]

Raises == [raises |-> TRUE, data |-> <<>>]
Returns(data) == [raises |-> FALSE, data |-> data]

DataEmpty == << Tok(<<>>, -1), Tok(<<"A", "B", "1", "2">>, 0) >>
DataShort == << Tok(<<"A", "B", "1">>, 96) >>
DataAB80 == << Tok(<<"A", "B", "1", "2", "3", "4">>, 80) >>
DataCD80 == << Tok(<<"C", "D", "5", "6", "7", "8">>, 80) >>
DataMixed == << Tok(<<" ", "a", "b", "1", "2", " ">>, 85), Tok(<<>>, -1),
                Tok(<<"3", "4", "\n">>, 70) >>

OcrOutcomes == {Raises, Returns(DataEmpty), Returns(DataShort), Returns(DataAB80),
                Returns(DataCD80), Returns(DataMixed)}

MethodIds == 1..Len(Methods)
PsmIds == 1..Len(PsmConfigs)

OcrEnvs ==
    [prep : {p \in [MethodIds -> BOOLEAN] :
                Cardinality({m \in MethodIds : p[m]}) <= MaxPrepFaults},
     out : [MethodIds -> [PsmIds -> OcrOutcomes]]]

InitFusion ==
    /\ InitCommon
    /\ input \in OcrEnvs

ExtractTextCall ==
    /\ last.op = "none"
    /\ LET r == extract_text(input)
       IN  last' = [op |-> "extract_text", ret |-> r.ret, results |-> r.results,
                    invoked |-> r.invoked]
    /\ UNCHANGED <<clockVars, dupVars, perfVars, storeVars, loopVars, input>>

NextFusion == ExtractTextCall

SpecFusion == InitFusion /\ [][NextFusion]_vars

\* The combinations in the order extract_text enumerates them.
Combos == << <<1, 1>>, <<1, 2>>, <<2, 1>>, <<2, 2>>, <<3, 1>>, <<3, 2>> >>

OutcomeOf(ocr, c) == ocr.out[c[1]][c[2]]

\* A combination yields a usable text: it does not raise, and its cleaned
\* text is not empty and not shorter than MIN_PLATE_LENGTH.
YieldsText(ocr, c) ==
    /\ ~ocr.prep[c[1]]
    /\ ~OutcomeOf(ocr, c).raises
    /\ Len(CleanText(OutcomeOf(ocr, c).data)) >= MIN_PLATE_LENGTH

\* C3: the readings extract_text collected are those of the combinations it
\* invoked that yielded a usable text, in the enumeration order
\* Adaptive/PSM7, Adaptive/PSM8, Otsu/PSM7, Otsu/PSM8, CLAHE/PSM7, CLAHE/PSM8;
\* the reading returned has the maximum confidence of them all, and every
\* reading enumerated before it has a strictly smaller confidence.
C3_FusionSelectsFirstMaximum ==
    last.op = "extract_text" /\ last.results # <<>> =>
        LET produced == SelectSeq(Combos,
                LAMBDA c : (\E i \in 1..Len(last.invoked) : last.invoked[i] = c)
                           /\ YieldsText(input, c))
        IN  /\ Len(last.results) = Len(produced)
            /\ \A i \in 1..Len(produced) :
                   /\ last.results[i][1] = CleanText(OutcomeOf(input, produced[i]).data)
                   /\ last.results[i][3] = Methods[produced[i][1]]
            /\ \E i \in 1..Len(last.results) :
                   /\ last.ret = last.results[i]
                   /\ \A j \in 1..Len(last.results) :
                          RatLeq(last.results[j][2], last.ret[2])
                   /\ \A j \in 1..(i - 1) :
                          RatLess(last.results[j][2], last.ret[2])

\* Two readings of different texts share the maximum confidence, a reading
\* of smaller confidence was enumerated before them, and the earlier of the
\* two is returned.
C3_Witness ==
    /\ last.op = "extract_text"
    /\ \E i, j \in 1..Len(last.results) :
           /\ 1 < i /\ i < j
           /\ last.results[i][2] = last.results[j][2]
           /\ last.results[i][1] # last.results[j][1]
           /\ RatLess(last.results[1][2], last.results[i][2])
           /\ \A k \in 1..Len(last.results) :
                  RatLeq(last.results[k][2], last.results[i][2])
           /\ last.ret = last.results[i]

\* C4: when every combination raises (its preprocessing or its OCR call) or
\* yields a text that is empty or shorter than MIN_PLATE_LENGTH, extract_text
\* returns the sentinel (empty text, confidence 0, method "None").
C4_FusionFailSoft ==
    last.op = "extract_text" =>
        ((\A i \in 1..Len(Combos) : ~YieldsText(input, Combos[i]))
            => last.ret = Sentinel)

\* No combination yields a usable text: one raises, one gives an empty text,
\* one a text that is too short, and the sentinel is returned.
C4_Witness ==
    /\ last.op = "extract_text"
    /\ \A i \in 1..Len(Combos) : ~YieldsText(input, Combos[i])
    /\ \E i \in 1..Len(Combos) : OutcomeOf(input, Combos[i]).raises
    /\ \E i \in 1..Len(Combos) : OutcomeOf(input, Combos[i]) = Returns(DataEmpty)
    /\ \E i \in 1..Len(Combos) :
           /\ OutcomeOf(input, Combos[i]) = Returns(DataShort)
           /\ \E k \in 1..Len(last.invoked) : last.invoked[k] = Combos[i]
    /\ last.ret = Sentinel

\* C5: when a combination raises, every other combination whose
\* preprocessing succeeded is still invoked, the other configuration of the
\* same method included, and its reading competes for the maximum.
C5_FusionErrorIsolation ==
    last.op = "extract_text" =>
        \A i \in 1..Len(Combos) :
            ~input.prep[Combos[i][1]] =>
                /\ \E k \in 1..Len(last.invoked) : last.invoked[k] = Combos[i]
                /\ YieldsText(input, Combos[i]) =>
                       RatLeq(ReadingConfidence(OutcomeOf(input, Combos[i]).data),
                              last.ret[2])

(***************************************************************************)
(* PerformanceMonitor.  frame_times is a deque(maxlen=capacity); durations *)
(* are rationals, in seconds.                                              *)
(***************************************************************************)
RatAdd(a, b) == Rat(a.n * b.d + b.n * a.d, a.d * b.d)

\* sum(self.frame_times)
RECURSIVE RatSum(_)
RatSum(seq) == IF seq = <<>> THEN Rat(0, 1) ELSE RatAdd(Head(seq), RatSum(Tail(seq)))

\* deque.append on a deque of bounded length: once full, the oldest sample
\* is dropped from the left.
add_frame_time(samples, capacity, duration) ==
    IF capacity = 0 THEN <<>>
    ELSE IF Len(samples) >= capacity
         THEN Append(Tail(samples), duration)
         ELSE Append(samples, duration)

\* get_fps: 0 without samples, else 1.0 / (sum / len); the division raises
\* ZeroDivisionError when the mean is zero.
get_fps(samples) ==
    IF samples = <<>>
    THEN [raises |-> FALSE, value |-> Rat(0, 1)]
    ELSE LET total == RatSum(samples)
         IN  IF total.n = 0
             THEN [raises |-> TRUE, value |-> Rat(0, 1)]
             ELSE [raises |-> FALSE, value |-> Rat(total.d * Len(samples), total.n)]

(***************************************************************************)
(* Direct calls of add_frame_time and get_fps on a monitor of small        *)
(* capacity or of the configured one.                                      *)
(***************************************************************************)
Durations == {Rat(0, 1), Rat(1, 10), Rat(2, 10)}

InitPerf ==
    /\ InitState
    /\ IdleLoop
    /\ maxlen \in (1..MaxCapacity) \cup {PERFORMANCE_BUFFER_SIZE}
    /\ input = <<>>

AddFrameTimeCall(duration) ==
    /\ Len(hist) < MaxSamples
    /\ frame_times' = add_frame_time(frame_times, maxlen, duration)
    /\ hist' = Append(hist, duration)
    /\ last' = [op |-> "add_frame_time", duration |-> duration]
    /\ UNCHANGED <<clockVars, dupVars, maxlen, storeVars, loopVars, input>>

GetFpsCall ==
    /\ LET r == get_fps(frame_times)
       IN  last' = [op |-> "get_fps", raises |-> r.raises, ret |-> r.value]
    /\ UNCHANGED <<clockVars, dupVars, perfVars, storeVars, loopVars, input>>

NextPerf ==
    \/ \E duration \in Durations : AddFrameTimeCall(duration)
    \/ GetFpsCall

SpecPerf == InitPerf /\ [][NextPerf]_vars

Min(a, b) == IF a <= b THEN a ELSE b

\* The last k elements of a sequence.
LastN(seq, k) == SubSeq(seq, Len(seq) - k + 1, Len(seq))

\* The sample window is the last min(n, capacity) of the n durations
\* recorded, in recording order.
PerfWindowHoldsLatest ==
    frame_times = LastN(hist, Min(Len(hist), maxlen))

\* get_fps, when it returns, returns 0 for an empty window and otherwise the
\* number of samples divided by their sum.
PerfFpsWhenReturned ==
    last.op = "get_fps" /\ ~last.raises =>
        IF frame_times = <<>>
        THEN last.ret = Rat(0, 1)
        ELSE last.ret.n * RatSum(frame_times).n
                 = last.ret.d * RatSum(frame_times).d * Len(frame_times)

\* C6: after n add_frame_time calls with capacity C the window holds exactly
\* the last min(n, C) durations in recording order, never more than C, and
\* get_fps returns 0 when no sample was recorded and otherwise 1 divided by
\* the mean of the samples in the window.
C6_PerformanceTracker ==
    /\ PerfWindowHoldsLatest
    /\ Len(frame_times) <= maxlen
    /\ last.op = "get_fps" => ~last.raises /\ PerfFpsWhenReturned

\* Capacity 3 and durations 0.1, 0.1, 0.1, 0.2: the fourth evicts the first
\* and get_fps returns 7.5.
PerfExampleReached ==
    /\ maxlen = 3
    /\ hist = <<Rat(1, 10), Rat(1, 10), Rat(1, 10), Rat(2, 10)>>
    /\ last.op = "get_fps" /\ ~last.raises /\ last.ret = Rat(15, 2)

(***************************************************************************)
(* DataManager.  A timestamp '%Y-%m-%d %H:%M:%S' is <<day, second>>; the   *)
(* plate_data handed to save_detection is the 7-tuple of main():           *)
(* <<timestamp, plate_text, confidence, img_path, origin, 0, method>>.     *)
(* A fault names the step of the call that raises ("none": no step does).  *)
(***************************************************************************)
SaveFaults == {"none", "connect", "insert", "commit", "export"}
StatsFaults == {"none", "connect", "count", "distinct", "avg"}

\* The faults of a save with the two ways the export can fail: before the
\* file is opened ("export"), or while it is written ("write").
ExportFaults == SaveFaults \cup {"write"}

\* timestamp.strftime('%Y-%m-%d %H:%M:%S')
Timestamp(day, second) == <<day, second>>

\* SQLite's DATE(timestamp), and strftime('%Y-%m-%d'): the day alone.
DateOf(timestamp) == timestamp[1]

\* os.path.join(config.SAVED_PLATES_DIR, f"plate_{...%Y%m%d_%H%M%S}.jpg")
ImagePath(day, second) == <<"saved_plates", "plate", day, second, "jpg">>

DigitSeq == <<"0", "1", "2", "3", "4", "5", "6", "7", "8", "9">>

\* str(n) for n >= 0
RECURSIVE IntText(_)
IntText(n) ==
    IF n < 10 THEN <<DigitSeq[n + 1]>>
    ELSE IntText(n \div 10) \o <<DigitSeq[(n % 10) + 1]>>

\* f"{confidence:.2%}": the confidence times 100, rounded to two decimals
\* (the nearest hundredth; the confidences drawn here are no ties).
PercentString(confidence) ==
    LET h == (2 * confidence.n * 10000 + confidence.d) \div (2 * confidence.d)
    IN  IntText(h \div 100) \o <<".">> \o <<DigitSeq[((h \div 10) % 10) + 1]>>
            \o <<DigitSeq[(h % 10) + 1]>> \o <<"%">>

CsvHeader == <<"Timestamp", "Plate_Number", "Confidence", "Image_Path">>

\* The one row of the DataFrame.
CsvRow(plate_data) ==
    <<plate_data[1], plate_data[2], PercentString(plate_data[3]), plate_data[4]>>

\* The INSERT: the seven values in the seven columns, the id assigned.
PlateRow(id, plate_data) ==
    [id |-> id,
     timestamp |-> plate_data[1],
     plate_number |-> plate_data[2],
     confidence |-> plate_data[3],
     image_path |-> plate_data[4],
     location |-> plate_data[5],
     processing_time |-> plate_data[6],
     detection_method |-> plate_data[7]]

\* A mutation of StoreAfterSave: the insert is undone when the export fails.
StoreAfterSaveUndone(rows, plate_data, fault) ==
    IF fault = "none"
    THEN Append(rows, PlateRow(Len(rows) + 1, plate_data))
    ELSE rows

\* The plates table after the call: the row is committed unless the
\* connection, the insert or the commit failed.
StoreAfterSave(rows, plate_data, fault) ==
    IF fault \in {"connect", "insert", "commit"}
    THEN rows
    ELSE Append(rows, PlateRow(Len(rows) + 1, plate_data))

\* The export file after the call: written only when nothing failed, with
\* the header when the file did not exist.  When to_csv raises while writing
\* ("write"), it has opened the file, which exists from then on, and no
\* line has reached it.
CsvAfterSave(file, plate_data, fault) ==
    IF fault = "write"
    THEN [exists |-> TRUE, rows |-> file.rows]
    ELSE IF fault # "none"
    THEN file
    ELSE IF file.exists
         THEN [file EXCEPT !.rows = Append(@, CsvRow(plate_data))]
         ELSE [exists |-> TRUE, rows |-> <<CsvHeader, CsvRow(plate_data)>>]

\* The whole call.
save_detection(rows, file, plate_data, fault) ==
    [ret |-> (fault = "none"),
     db |-> StoreAfterSave(rows, plate_data, fault),
     csv |-> CsvAfterSave(file, plate_data, fault)]

\* A mutation of OnDate: every row is taken, whatever its date.
OnAnyDate(row, day) == TRUE

\* WHERE DATE(timestamp) = ?
OnDate(row, day) == DateOf(row.timestamp) = day

\* COUNT(*)
CountRows(rows, day) == Len(SelectSeq(rows, LAMBDA row : OnDate(row, day)))

\* COUNT(DISTINCT plate_number): a plate number counts where it first occurs.
CountDistinct(rows, day) ==
    LET sel == SelectSeq(rows, LAMBDA row : OnDate(row, day))
    IN  Cardinality({i \in 1..Len(sel) :
            \A j \in 1..(i - 1) : sel[j].plate_number # sel[i].plate_number})

\* AVG(confidence) `or 0`: NULL without rows.
RECURSIVE SumConfidence(_)
SumConfidence(rows) ==
    IF rows = <<>> THEN Rat(0, 1)
    ELSE RatAdd(Head(rows).confidence, SumConfidence(Tail(rows)))

AvgConfidence(rows, day) ==
    LET sel == SelectSeq(rows, LAMBDA row : OnDate(row, day))
        total == SumConfidence(sel)
    IN  IF sel = <<>> THEN Rat(0, 1) ELSE Rat(total.n, total.d * Len(sel))

\* A mutation of get_statistics: the failure of a query is not caught.
get_statistics_unguarded(rows, day, fault) ==
    [raises |-> fault # "none",
     ret |-> <<CountRows(rows, day), CountDistinct(rows, day),
               AvgConfidence(rows, day)>>]

\* The whole call: the bare except turns every failure into (0, 0, 0).
get_statistics(rows, day, fault) ==
    [raises |-> FALSE,
     ret |-> IF fault # "none"
             THEN <<0, 0, Rat(0, 1)>>
             ELSE <<CountRows(rows, day), CountDistinct(rows, day),
                    AvgConfidence(rows, day)>>]

(***************************************************************************)
(* Direct calls of save_detection and get_statistics, with any step        *)
(* failing, over two days.                                                 *)
(***************************************************************************)
Detections == { << <<"A", "B", "1", "2", "3", "4">>, Rat(80, 100), "Otsu" >>,
                << <<"C", "D", "5", "6", "7", "8">>, Rat(85, 100), "CLAHE" >> }

\* The plate_data main() builds for a detection at the current instant.
PlateData(det, origin) ==
    <<Timestamp(today, now), det[1], det[2], ImagePath(today, now), origin, 0, det[3]>>

InitStore ==
    /\ InitCommon
    /\ input = <<>>

\* The connection a save_detection call opened, when the call returns:
\* "none" when connect raised, "closed" when conn.close() ran (it runs before
\* the export), and otherwise the connection is abandoned by the except
\* clause: the interpreter may have finalised it by then, or not.
ConnectionAfterSave(fault, finalized) ==
    CASE fault = "connect" -> "none"
      [] fault \in {"insert", "commit"} -> IF finalized THEN "finalized" ELSE "open"
      [] OTHER -> "closed"

\* The same for a get_statistics call, whose conn.close() follows the three
\* queries.
ConnectionAfterStatistics(fault, finalized) ==
    CASE fault = "connect" -> "none"
      [] fault \in {"count", "distinct", "avg"} -> IF finalized THEN "finalized" ELSE "open"
      [] OTHER -> "closed"

SaveDetectionCall(det, fault) ==
    /\ Len(saves) < MaxSaves
    /\ LET plate_data == PlateData(det, "Auto")
           r == save_detection(db, csv, plate_data, fault)
       IN  /\ db' = r.db
           /\ csv' = r.csv
           /\ saves' = Append(saves, [data |-> plate_data, fault |-> fault,
                                      ret |-> r.ret])
           /\ last' = [op |-> "save_detection", fault |-> fault, ret |-> r.ret,
                       before |-> db]
    /\ UNCHANGED <<clockVars, dupVars, perfVars, loopVars, input>>

GetStatisticsCall(fault) ==
    /\ LET r == get_statistics(db, today, fault)
       IN  last' = [op |-> "get_statistics", fault |-> fault, raises |-> r.raises,
                    ret |-> r.ret]
    /\ UNCHANGED <<clockVars, dupVars, perfVars, storeVars, loopVars, input>>

\* Midnight passes: datetime.now() is on the next day.
NewDay ==
    /\ today < MaxDay
    /\ now < MaxTime
    /\ today' = today + 1
    /\ now' = now + 1
    /\ last' = NoCall
    /\ UNCHANGED <<dupVars, perfVars, storeVars, loopVars, input>>

NextStore ==
    \/ \E det \in Detections, fault \in SaveFaults : SaveDetectionCall(det, fault)
    \/ \E fault \in StatsFaults : GetStatisticsCall(fault)
    \/ NewDay

SpecStore == InitStore /\ [][NextStore]_vars

\* The seven columns of a row, as the plate_data they were inserted from.
ColumnsOf(row) ==
    <<row.timestamp, row.plate_number, row.confidence, row.image_path,
      row.location, row.processing_time, row.detection_method>>

\* The save_detection calls so far in which the insert was committed and
\* the export write then failed.
PartialSaves == {i \in 1..Len(saves) : saves[i].fault = "export"}

\* The rows of the store dated on a day.
RowsOn(day) == {i \in 1..Len(db) : DateOf(db[i].timestamp) = day}

\* C7: a save_detection call whose insert succeeds and whose export write
\* fails returns false and leaves the inserted row in the store; the rows of
\* all such calls stay in the store, and a later get_statistics call (whose
\* own queries succeed) counts those of its day with the rows of the calls
\* that succeeded.
C7_PartialFailureKeepsRecord ==
    /\ last.op = "save_detection" /\ last.fault = "export" =>
           /\ last.ret = FALSE
           /\ saves[Len(saves)].ret = FALSE
           /\ db = Append(last.before,
                          PlateRow(Len(last.before) + 1, saves[Len(saves)].data))
    /\ \A i \in PartialSaves :
           Cardinality({k \in 1..Len(db) : ColumnsOf(db[k]) = saves[i].data})
               >= Cardinality({j \in PartialSaves : saves[j].data = saves[i].data})
    /\ last.op = "get_statistics" /\ last.fault = "none" =>
           /\ ~last.raises
           /\ last.ret[1] = Cardinality({i \in 1..Len(saves) :
                                /\ saves[i].fault \in {"none", "export"}
                                /\ DateOf(saves[i].data[1]) = today})

\* A save whose export write failed is followed, on the same day, by a
\* get_statistics call that counts its row.
C7_Witness ==
    /\ last.op = "get_statistics" /\ last.fault = "none"
    /\ \E i \in PartialSaves :
           /\ DateOf(saves[i].data[1]) = today
           /\ ~saves[i].ret
           /\ \E k \in 1..Len(db) : ColumnsOf(db[k]) = saves[i].data
    /\ \A i \in 1..Len(saves) : saves[i].fault # "none"
    /\ last.ret[1] >= 1
    /\ ~csv.exists

\* The confidences of the rows dated on a day, the others taken as 0.
ConfidencesOn(day) ==
    [i \in 1..Len(db) |-> IF i \in RowsOn(day) THEN db[i].confidence ELSE Rat(0, 1)]

\* C8: get_statistics (its queries succeeding) returns the number of rows of
\* the store dated today, the number of distinct plate texts among them, and
\* their mean confidence (0 when there is none); rows of any other day are
\* not counted, and unique <= total.
C8_DailyStatistics ==
    last.op = "get_statistics" /\ last.fault = "none" =>
        LET total == last.ret[1]
            unique == last.ret[2]
            avg_conf == last.ret[3]
            sum == RatSum(ConfidencesOn(today))
        IN  /\ total = Cardinality(RowsOn(today))
            /\ unique = Cardinality({db[i].plate_number : i \in RowsOn(today)})
            /\ unique <= total
            /\ total = 0 => avg_conf = Rat(0, 1)
            /\ total > 0 => avg_conf.n * sum.d * total = sum.n * avg_conf.d

\* The store holds a row of another day and, today, two rows of one plate
\* text; the statistics count today's two rows as one plate.
C8_Witness ==
    /\ last.op = "get_statistics" /\ last.fault = "none"
    /\ \E i \in 1..Len(db) : DateOf(db[i].timestamp) # today
    /\ last.ret[1] = 2
    /\ last.ret[2] = 1
    /\ Len(db) = 3

(***************************************************************************)
(* main(): the frame loop.                                                 *)
(*                                                                         *)
(* A region is [x, y, w, h, img]: the rectangle detectMultiScale gave and  *)
(* the pixels under it, named by what the OCR engine reads in them.        *)
(***************************************************************************)
AUTO_SAVE_THRESHOLD == Rat(8, 10)

DataHigh == << Tok(<<"A", "B", "1", "2", "3", "4">>, 85) >>
DataLong == << Tok(<<"A", "B", "1", "2", "3", "4", "5", "6", "7", "8", "9">>, 90) >>

AllOut(outcome) == [m \in MethodIds |-> [k \in PsmIds |-> outcome]]
NoPrepFault == [m \in MethodIds |-> FALSE]

\* "AB1234" at 0.85 under Otsu, at 0.775 under Adaptive, nothing under CLAHE.
ImgHigh ==
    [prep |-> NoPrepFault,
     out |-> << <<Returns(DataMixed), Raises>>,
                <<Returns(DataHigh), Returns(DataShort)>>,
                <<Returns(DataEmpty), Returns(DataEmpty)>> >>]

\* "AB1234" at 0.775 under every combination.
ImgLow == [prep |-> NoPrepFault, out |-> AllOut(Returns(DataMixed))]

\* "CD5678" at exactly 0.80.
ImgEdge == [prep |-> NoPrepFault, out |-> AllOut(Returns(DataCD80))]

\* Eleven characters at 0.90.
ImgLong == [prep |-> NoPrepFault, out |-> AllOut(Returns(DataLong))]

\* Nothing readable: every combination raises.
ImgNone == [prep |-> NoPrepFault, out |-> AllOut(Raises)]

\* The picture a region of the frame holds, by name.
Images == {"high", "low", "edge", "long", "none"}

Image(name) ==
    CASE name = "high" -> ImgHigh
      [] name = "low" -> ImgLow
      [] name = "edge" -> ImgEdge
      [] name = "long" -> ImgLong
      [] OTHER -> ImgNone

\* ocr.extract_text(plate_crop) for each picture.
Reading == [name \in Images |-> extract_text(Image(name)).ret]

Region(w, h, img) == [x |-> 0, y |-> 0, w |-> w, h |-> h, img |-> img]

\* The rectangles are at least MIN_PLATE_WIDTH by MIN_PLATE_HEIGHT, the
\* minSize handed to detectMultiScale.
RegionPool ==
    {Region(MIN_PLATE_WIDTH, MIN_PLATE_HEIGHT, "low"), Region(250, 200, "edge"),
     Region(251, 200, "high"), Region(100, 40, "long"), Region(100, 40, "none")}

RegionLists ==
    UNION {[1..n -> RegionPool] : n \in 0..MaxRegions}

Keys == {"none", "q", "a", "d", "s", "space"}

\* What a save of the loop can meet: nothing, a database error, an export
\* error.
LoopSaveFaults == {"none", "commit", "export"}

\* `area < config.MIN_PLATE_AREA or area > config.MAX_PLATE_AREA`
AreaRejected(region) ==
    LET area == region.w * region.h
    IN  area < MIN_PLATE_AREA \/ area > MAX_PLATE_AREA

\* A mutation of MeetsThreshold: a confidence equal to the threshold is not
\* enough.
AboveThreshold(confidence) == RatLess(AUTO_SAVE_THRESHOLD, confidence)

\* `confidence >= config.AUTO_SAVE_THRESHOLD`
MeetsThreshold(confidence) == RatLeq(AUTO_SAVE_THRESHOLD, confidence)

\* draw_detection_box(display_frame, x, y, w, h, plate_text, confidence)
DetectionBox(region, plate_text, confidence) ==
    [x |-> region.x, y |-> region.y, w |-> region.w, h |-> region.h,
     text |-> plate_text, confidence |-> confidence]

\* The duplicate check and the save that follows it, on either path:
\* [detected, db, csv, saves] after them.
CheckAndSave(fused, origin, fault) ==
    LET dup == is_duplicate(detected, fused[1], now)
        plate_data == <<Timestamp(today, now), fused[1], fused[2],
                        ImagePath(today, now), origin, 0, fused[3]>>
        r == save_detection(db, csv, plate_data, fault)
    IN  IF dup.ret
        THEN [detected |-> dup.detected, db |-> db, csv |-> csv, saves |-> saves]
        ELSE [detected |-> dup.detected, db |-> r.db, csv |-> r.csv,
              saves |-> Append(saves, [data |-> plate_data, fault |-> fault,
                                       ret |-> r.ret])]

\* A mutation of ProcessPlate: the tracker is consulted for every validated
\* region, before the auto-save test.
ProcessPlateChecksFirst(region, fault) ==
    LET fused == Reading[region.img]
        untouched == [display |-> display, detected |-> detected, db |-> db,
                      csv |-> csv, saves |-> saves]
        drawn == Append(display, DetectionBox(region, fused[1], fused[2]))
        dup == is_duplicate(detected, fused[1], now)
        r == CheckAndSave(fused, "Auto", fault)
    IN  IF AreaRejected(region) THEN untouched
        ELSE IF ~validate_plate(fused[1]) THEN untouched
        ELSE IF auto_save /\ MeetsThreshold(fused[2])
             THEN [display |-> drawn, detected |-> r.detected, db |-> r.db,
                   csv |-> r.csv, saves |-> r.saves]
             ELSE [untouched EXCEPT !.display = drawn,
                                    !.detected = dup.detected]

\* The body of `for (x, y, w, h) in plates` for one region:
\* [display, detected, db, csv, saves] after it.
ProcessPlate(region, fault) ==
    LET fused == Reading[region.img]
        untouched == [display |-> display, detected |-> detected, db |-> db,
                      csv |-> csv, saves |-> saves]
        drawn == Append(display, DetectionBox(region, fused[1], fused[2]))
    IN  IF AreaRejected(region) THEN untouched
        ELSE IF ~validate_plate(fused[1]) THEN untouched
        ELSE IF auto_save /\ MeetsThreshold(fused[2])
             THEN LET r == CheckAndSave(fused, "Auto", fault)
                  IN  [display |-> drawn, detected |-> r.detected, db |-> r.db,
                       csv |-> r.csv, saves |-> r.saves]
             ELSE [untouched EXCEPT !.display = drawn]

CONFIDENCE_THRESHOLD == Rat(6, 10)

InUnitRange(value) == RatLeq(Rat(0, 1), value) /\ RatLeq(value, Rat(1, 1))

\* A mutation of validate_config: FRAME_SKIP is not looked at.
validate_config_without_frame_skip(tesseract_exists, cascade_exists, confidence_threshold, auto_save_threshold, frame_skip) ==
    (IF tesseract_exists THEN <<>> ELSE <<"Tesseract not found">>)
    \o (IF cascade_exists THEN <<>> ELSE <<"Cascade file not found">>)
    \o (IF InUnitRange(confidence_threshold) THEN <<>>
        ELSE <<"CONFIDENCE_THRESHOLD must be between 0.0 and 1.0">>)
    \o (IF InUnitRange(auto_save_threshold) THEN <<>>
        ELSE <<"AUTO_SAVE_THRESHOLD must be between 0.0 and 1.0">>)

\* config.validate_config(): the list of errors.
validate_config(tesseract_exists, cascade_exists, confidence_threshold, auto_save_threshold, frame_skip) ==
    (IF tesseract_exists THEN <<>> ELSE <<"Tesseract not found">>)
    \o (IF cascade_exists THEN <<>> ELSE <<"Cascade file not found">>)
    \o (IF InUnitRange(confidence_threshold) THEN <<>>
        ELSE <<"CONFIDENCE_THRESHOLD must be between 0.0 and 1.0">>)
    \o (IF InUnitRange(auto_save_threshold) THEN <<>>
        ELSE <<"AUTO_SAVE_THRESHOLD must be between 0.0 and 1.0">>)
    \o (IF frame_skip < 1 THEN <<"FRAME_SKIP must be at least 1">> ELSE <<>>)

\* The values config.py can hold for a threshold: the one it has, one above
\* 1 and one below 0.
ThresholdChoices(configured) == {configured, Rat(11, 10), [n |-> -1, d |-> 10]}

\* Startup: `errors = config.validate_config()`; main returns when there is
\* one.
ValidateConfig(tesseract_exists, cascade_exists, confidence_threshold, auto_save_threshold) ==
    /\ pc = "validate_config"
    /\ LET errors == validate_config(tesseract_exists, cascade_exists,
                                     confidence_threshold, auto_save_threshold,
                                     FRAME_SKIP)
       IN  /\ pc' = IF errors # <<>> THEN "exit" ELSE "init_database"
           /\ last' = [op |-> "startup", step |-> "validate_config",
                       ok |-> (errors = <<>>), errors |-> errors]
    /\ UNCHANGED <<clockVars, dupVars, perfVars, storeVars, FRAME_SKIP, camera,
                   frame_count, frame_start, plates, idx, display, auto_save,
                   show_dashboard, stats, input>>

\* `if not init_database(): return`
InitDatabase(ok) ==
    /\ pc = "init_database"
    /\ pc' = IF ok THEN "load_cascade" ELSE "exit"
    /\ last' = [op |-> "startup", step |-> "init_database", ok |-> ok,
                errors |-> <<>>]
    /\ UNCHANGED <<clockVars, dupVars, perfVars, storeVars, FRAME_SKIP, camera,
                   frame_count, frame_start, plates, idx, display, auto_save,
                   show_dashboard, stats, input>>

\* `if plate_cascade.empty(): return`
LoadCascade(ok) ==
    /\ pc = "load_cascade"
    /\ pc' = IF ok THEN "open_camera" ELSE "exit"
    /\ last' = [op |-> "startup", step |-> "load_cascade", ok |-> ok,
                errors |-> <<>>]
    /\ UNCHANGED <<clockVars, dupVars, perfVars, storeVars, FRAME_SKIP, camera,
                   frame_count, frame_start, plates, idx, display, auto_save,
                   show_dashboard, stats, input>>

\* The components are built and the capture device is opened.
OpenCamera(opened) ==
    /\ pc = "open_camera"
    /\ detected' = <<>>
    /\ frame_times' = <<>>
    /\ camera' = IF opened THEN "open" ELSE "unavailable"
    /\ pc' = IF opened THEN "capture" ELSE "exit"
    /\ frame_count' = 0
    /\ last' = [op |-> "startup", step |-> "open_camera", ok |-> opened,
                errors |-> <<>>]
    /\ UNCHANGED <<clockVars, maxlen, hist, storeVars, FRAME_SKIP, frame_start,
                   plates, idx, display, auto_save, show_dashboard, stats, input>>

\* cap.read() yields no frame: the loop ends.
CaptureFails ==
    /\ pc = "capture"
    /\ frame_start' = now
    /\ pc' = "cleanup"
    /\ last' = [op |-> "capture", ret |-> FALSE]
    /\ UNCHANGED <<clockVars, dupVars, perfVars, storeVars, FRAME_SKIP, camera,
                   frame_count, plates, idx, display, auto_save, show_dashboard,
                   stats, input>>

\* A frame the frame skipping passes over: it is shown, and only `q` is
\* looked for.
CaptureSkipped(key) ==
    /\ pc = "capture"
    /\ frame_count < MaxFrames
    /\ (frame_count + 1) % FRAME_SKIP # 0
    /\ frame_start' = now
    /\ frame_count' = frame_count + 1
    /\ display' = <<>>
    /\ pc' = IF key = "q" THEN "cleanup" ELSE "capture"
    /\ last' = [op |-> "capture", ret |-> TRUE, skipped |-> TRUE, key |-> key]
    /\ UNCHANGED <<clockVars, dupVars, perfVars, storeVars, FRAME_SKIP, camera,
                   plates, idx, auto_save, show_dashboard, stats, input>>

\* A frame that is processed: the detector gives its regions.
CaptureDetects(regions) ==
    /\ pc = "capture"
    /\ frame_count < MaxFrames
    /\ (frame_count + 1) % FRAME_SKIP = 0
    /\ frame_start' = now
    /\ frame_count' = frame_count + 1
    /\ display' = <<>>
    /\ plates' = regions
    /\ idx' = 1
    /\ pc' = IF regions = <<>> THEN "dashboard" ELSE "regions"
    /\ last' = [op |-> "capture", ret |-> TRUE, skipped |-> FALSE]
    /\ UNCHANGED <<clockVars, dupVars, perfVars, storeVars, FRAME_SKIP, camera,
                   auto_save, show_dashboard, stats, input>>

\* One pass of the for loop over the regions.
ProcessRegion(fault) ==
    /\ pc = "regions"
    /\ idx <= Len(plates)
    /\ \E r \in {ProcessPlate(plates[idx], fault)} :
           /\ fault = "none" \/ r.saves # saves
           /\ display' = r.display
           /\ detected' = r.detected
           /\ db' = r.db
           /\ csv' = r.csv
           /\ saves' = r.saves
    /\ idx' = idx + 1
    /\ pc' = IF idx = Len(plates) THEN "dashboard" ELSE "regions"
    /\ last' = [op |-> "process_plate", region |-> plates[idx], time |-> now,
                auto_save |-> auto_save, before |-> detected,
                nsaves |-> Len(saves), ndisplay |-> Len(display),
                store |-> <<db, csv>>]
    /\ UNCHANGED <<clockVars, perfVars, FRAME_SKIP, camera, frame_count,
                   frame_start, plates, auto_save, show_dashboard, stats, input>>

\* `if show_dashboard: stats = data_mgr.get_statistics()`
Dashboard(fault) ==
    /\ pc = "dashboard"
    /\ IF show_dashboard
       THEN LET r == get_statistics(db, today, fault)
            IN  /\ stats' = (IF r.raises THEN stats ELSE r.ret)
                /\ pc' = IF r.raises THEN "crashed" ELSE "draw_dashboard"
                /\ last' = [op |-> "get_statistics", fault |-> fault,
                            raises |-> r.raises, ret |-> r.ret]
       ELSE /\ fault = "none"
            /\ pc' = "performance"
            /\ last' = NoCall
            /\ UNCHANGED stats
    /\ UNCHANGED <<clockVars, dupVars, perfVars, storeVars, FRAME_SKIP, camera,
                   frame_count, frame_start, plates, idx, display, auto_save,
                   show_dashboard, input>>

\* draw_dashboard: it asks the monitor for the frame rate.
DrawDashboard ==
    /\ pc = "draw_dashboard"
    /\ LET r == get_fps(frame_times)
       IN  /\ pc' = IF r.raises THEN "crashed" ELSE "performance"
           /\ last' = [op |-> "get_fps", raises |-> r.raises, ret |-> r.value]
    /\ UNCHANGED <<clockVars, dupVars, perfVars, storeVars, FRAME_SKIP, camera,
                   frame_count, frame_start, plates, idx, display, auto_save,
                   show_dashboard, stats, input>>

\* The frame is shown and its duration recorded.
Performance ==
    /\ pc = "performance"
    /\ LET frame_time == Rat(now - frame_start, 1)
       IN  /\ frame_times' = add_frame_time(frame_times, maxlen, frame_time)
           /\ hist' = Append(hist, frame_time)
           /\ last' = [op |-> "add_frame_time", duration |-> frame_time]
    /\ pc' = "controls"
    /\ UNCHANGED <<clockVars, dupVars, maxlen, storeVars, FRAME_SKIP, camera,
                   frame_count, frame_start, plates, idx, display, auto_save,
                   show_dashboard, stats, input>>

\* The manual save of the first region of the frame.
ManualSave(fault) ==
    LET fused == Reading[plates[1].img]
    IN  IF fused[1] # <<>>
        THEN CheckAndSave(fused, "Manual", fault)
        ELSE [detected |-> detected, db |-> db, csv |-> csv, saves |-> saves]

\* `key = cv2.waitKey(1) & 0xFF` and what the key does.
Controls(key, fault) ==
    /\ pc = "controls"
    /\ pc' = IF key = "q" THEN "cleanup" ELSE "capture"
    /\ auto_save' = IF key = "a" THEN ~auto_save ELSE auto_save
    /\ show_dashboard' = IF key = "d" THEN ~show_dashboard ELSE show_dashboard
    /\ IF key \in {"s", "space"} /\ Len(plates) > 0
       THEN \E r \in {ManualSave(fault)} :
                /\ fault = "none" \/ r.saves # saves
                /\ detected' = r.detected
                /\ db' = r.db
                /\ csv' = r.csv
                /\ saves' = r.saves
       ELSE /\ fault = "none"
            /\ UNCHANGED <<dupVars, storeVars>>
    /\ last' = IF key \in {"s", "space"} /\ Len(plates) > 0
               THEN [op |-> "manual_save", region |-> plates[1], time |-> now,
                     before |-> detected, nsaves |-> Len(saves)]
               ELSE NoCall
    /\ UNCHANGED <<clockVars, perfVars, FRAME_SKIP, camera, frame_count,
                   frame_start, plates, idx, display, stats, input>>

\* cap.release()
Cleanup ==
    /\ pc = "cleanup"
    /\ camera' = "released"
    /\ pc' = "summary"
    /\ last' = NoCall
    /\ UNCHANGED <<clockVars, dupVars, perfVars, storeVars, FRAME_SKIP,
                   frame_count, frame_start, plates, idx, display, auto_save,
                   show_dashboard, stats, input>>

\* The session summary: the statistics and the frame rate.
Summary(fault) ==
    /\ pc = "summary"
    /\ LET r == get_statistics(db, today, fault)
           f == get_fps(frame_times)
       IN  /\ stats' = (IF r.raises THEN stats ELSE r.ret)
           /\ pc' = IF r.raises \/ f.raises THEN "crashed" ELSE "done"
           /\ last' = [op |-> "summary", fault |-> fault, ret |-> r.ret,
                       raises |-> r.raises, fps_raises |-> f.raises,
                       fps |-> f.value]
    /\ UNCHANGED <<clockVars, dupVars, perfVars, storeVars, FRAME_SKIP, camera,
                   frame_count, frame_start, plates, idx, display, auto_save,
                   show_dashboard, input>>

\* Time passes while a frame is worked on and shown.
LoopTick ==
    /\ pc = "performance"
    /\ now + FrameTick <= MaxTime
    /\ now' = now + FrameTick
    /\ UNCHANGED <<today, dupVars, perfVars, storeVars, loopVars, input, last>>

Init ==
    /\ InitState
    /\ maxlen = PERFORMANCE_BUFFER_SIZE
    /\ pc = "validate_config"
    /\ FRAME_SKIP \in 0..MaxFrameSkip
    /\ camera = "closed"
    /\ frame_count = 0
    /\ frame_start = 0
    /\ plates = <<>>
    /\ idx = 0
    /\ display = <<>>
    /\ auto_save \in BOOLEAN
    /\ show_dashboard = TRUE
    /\ stats = <<>>
    /\ input = <<>>

Next ==
    \/ \E tesseract_exists \in BOOLEAN, cascade_exists \in BOOLEAN,
          confidence_threshold \in ThresholdChoices(CONFIDENCE_THRESHOLD),
          auto_save_threshold \in ThresholdChoices(AUTO_SAVE_THRESHOLD) :
            ValidateConfig(tesseract_exists, cascade_exists,
                           confidence_threshold, auto_save_threshold)
    \/ \E ok \in BOOLEAN : InitDatabase(ok)
    \/ \E ok \in BOOLEAN : LoadCascade(ok)
    \/ \E opened \in BOOLEAN : OpenCamera(opened)
    \/ CaptureFails
    \/ \E key \in Keys : CaptureSkipped(key)
    \/ \E regions \in RegionLists : CaptureDetects(regions)
    \/ \E fault \in LoopSaveFaults : ProcessRegion(fault)
    \/ \E fault \in StatsFaults : Dashboard(fault)
    \/ DrawDashboard
    \/ Performance
    \/ \E key \in Keys, fault \in LoopSaveFaults : Controls(key, fault)
    \/ Cleanup
    \/ \E fault \in StatsFaults : Summary(fault)
    \/ LoopTick

Spec == Init /\ [][Next]_vars

(***************************************************************************)
(* The claims about the main loop.                                         *)
(***************************************************************************)
\* C9: when the connection or a query of get_statistics fails, the call
\* returns (0, 0, 0) without raising, in the loop and in the summary, and
\* the loop goes on to its next step, the drawing of the dashboard.
C9_StatisticsFailSoft ==
    /\ (last.op = "get_statistics" /\ last.fault # "none")
           => /\ ~last.raises
              /\ last.ret = <<0, 0, Rat(0, 1)>>
              /\ pc = "draw_dashboard"
    /\ (last.op = "summary" /\ last.fault # "none")
           => /\ ~last.raises
              /\ last.ret = <<0, 0, Rat(0, 1)>>

\* A query fails in the loop while the store holds a record of today, and
\* the loop is at the drawing of the dashboard.
C9_Witness ==
    /\ last.op = "get_statistics"
    /\ last.fault = "distinct"
    /\ RowsOn(today) # {}
    /\ last.ret = <<0, 0, Rat(0, 1)>>
    /\ pc = "draw_dashboard"

\* The region the loop has just worked on is within the area range and its
\* fused text passes validation.
ValidatedRegion ==
    /\ last.op = "process_plate"
    /\ last.region.w * last.region.h >= MIN_PLATE_AREA
    /\ last.region.w * last.region.h <= MAX_PLATE_AREA
    /\ validate_plate(extract_text(Image(last.region.img)).ret[1])

\* The loop drew the region's box as the last thing on the displayed frame.
Rendered ==
    LET fused == extract_text(Image(last.region.img)).ret
    IN  /\ Len(display) = last.ndisplay + 1
        /\ display[Len(display)].text = fused[1]
        /\ display[Len(display)].confidence = fused[2]
        /\ display[Len(display)].w = last.region.w
        /\ display[Len(display)].h = last.region.h

\* The loop handed one record to save_detection for the region, with the
\* origin "Auto".
HandedAuto ==
    LET fused == extract_text(Image(last.region.img)).ret
    IN  /\ Len(saves) = last.nsaves + 1
        /\ saves[Len(saves)].data[2] = fused[1]
        /\ saves[Len(saves)].data[3] = fused[2]
        /\ saves[Len(saves)].data[5] = "Auto"

\* The text was seen at most DUPLICATE_TIME_WINDOW seconds before.
SeenInWindow ==
    LET fused == extract_text(Image(last.region.img)).ret
    IN  \E i \in 1..Len(last.before) :
            /\ last.before[i][1] = fused[1]
            /\ last.time - last.before[i][2] <= DUPLICATE_TIME_WINDOW

\* C10: a region within the area range whose fused text passes validation is
\* drawn on the frame in every case, and a record with origin "Auto" is handed
\* to save_detection for it exactly when auto-save is on, the confidence is at
\* least AUTO_SAVE_THRESHOLD and the text was not seen within the duplicate
\* window; otherwise nothing is handed over.
C10_AutoSaveDecision ==
    ValidatedRegion =>
        LET confidence == extract_text(Image(last.region.img)).ret[2]
            due == /\ last.auto_save
                   /\ RatLeq(Rat(8, 10), confidence)
                   /\ ~SeenInWindow
        IN  /\ Rendered
            /\ due => HandedAuto
            /\ ~due => Len(saves) = last.nsaves

\* A second detection of a text that was handed over as "Auto" within the
\* window: it is drawn and not handed over.
C10_Witness ==
    /\ ValidatedRegion
    /\ last.auto_save
    /\ RatLeq(Rat(8, 10), extract_text(Image(last.region.img)).ret[2])
    /\ SeenInWindow
    /\ Rendered
    /\ Len(saves) = last.nsaves
    /\ \E i \in 1..Len(saves) :
           /\ saves[i].data[5] = "Auto"
           /\ saves[i].data[2] = extract_text(Image(last.region.img)).ret[1]

\* C11: every row of the plates table, whichever path saved it, has a plate
\* number that passes validate_plate.
C11_PersistedTextIsValid ==
    \A i \in 1..Len(db) : validate_plate(db[i].plate_number)

\* The loop is between two frames, or past its last one.
BetweenFrames == pc \in {"capture", "cleanup", "summary", "done"}

\* C12: every frame the loop has captured has added exactly one duration to
\* the tracker: between frames, the durations handed to add_frame_time are as
\* many as the frames captured.
C12_SampleEveryFrame ==
    BetweenFrames => Len(hist) = frame_count

\* The rows of the plates table made from the i-th record handed to
\* save_detection.
RecordsOf(i) ==
    {j \in 1..Len(db) : /\ db[j].timestamp = saves[i].data[1]
                        /\ db[j].plate_number = saves[i].data[2]
                        /\ db[j].location = saves[i].data[5]}

\* C13: every accepted detection of a validated text, on either path, has
\* exactly one row in the plates table, whatever the outcome of the store and
\* export writes.
C13_ExactlyOneRecord ==
    \A i \in 1..Len(saves) :
        validate_plate(saves[i].data[2]) => Cardinality(RecordsOf(i)) = 1

\* The instant at which the i-th record handed to save_detection was
\* accepted.
AcceptedAt(i) == saves[i].data[1][2]

\* C14: of the records handed to save_detection, by the auto path or the
\* manual path, no two of one plate text were accepted within
\* DUPLICATE_TIME_WINDOW seconds of each other.
C14_NoTwoAcceptedInWindow ==
    \A i, j \in 1..Len(saves) :
        (i < j /\ saves[i].data[2] = saves[j].data[2])
            => AcceptedAt(j) - AcceptedAt(i) > DUPLICATE_TIME_WINDOW

\* The manual save of a text the auto path handed over earlier, within the
\* window, is suppressed: the two paths share the window.
C14_Witness ==
    /\ last.op = "manual_save"
    /\ Len(saves) = last.nsaves
    /\ \E i \in 1..Len(saves) :
           /\ saves[i].data[5] = "Auto"
           /\ saves[i].data[2] = extract_text(Image(last.region.img)).ret[1]
           /\ last.time - AcceptedAt(i) <= DUPLICATE_TIME_WINDOW
           /\ last.time - AcceptedAt(i) > 0

\* C15: region processing consults the duplicate tracker only when auto-save
\* is on and the confidence is at least AUTO_SAVE_THRESHOLD: a validated
\* region seen with auto-save off, or below the threshold, is drawn and leaves
\* the tracker, the plates table and the export file as they were, and
\* nothing is handed to save_detection.
C15_TrackerOnlyOnAutoSave ==
    (/\ ValidatedRegion
     /\ \/ ~last.auto_save
        \/ RatLess(extract_text(Image(last.region.img)).ret[2], Rat(8, 10)))
        => /\ detected = last.before
           /\ <<db, csv>> = last.store
           /\ Len(saves) = last.nsaves
           /\ Rendered

\* A validated sighting above the threshold while auto-save is off, of a text
\* the tracker does not hold: it is drawn and the tracker still does not hold
\* it.
C15_Witness ==
    /\ ValidatedRegion
    /\ ~last.auto_save
    /\ RatLeq(Rat(8, 10), extract_text(Image(last.region.img)).ret[2])
    /\ Rendered
    /\ detected = last.before
    /\ EntriesOf(detected, extract_text(Image(last.region.img)).ret[1]) = {}

\* The region the loop has just worked on, in region processing or in the
\* manual save, has an area outside [MIN_PLATE_AREA, MAX_PLATE_AREA].
OutOfRangeRegion ==
    /\ last.op \in {"process_plate", "manual_save"}
    /\ \/ last.region.w * last.region.h < MIN_PLATE_AREA
       \/ last.region.w * last.region.h > MAX_PLATE_AREA

\* C16: a region whose area is outside [MIN_PLATE_AREA, MAX_PLATE_AREA] is
\* not considered by region processing nor by the manual save: nothing is
\* drawn for it, the tracker is not consulted and nothing is handed to
\* save_detection.
C16_AreaFilter ==
    OutOfRangeRegion =>
        /\ Len(saves) = last.nsaves
        /\ detected = last.before
        /\ last.op = "process_plate" => Len(display) = last.ndisplay

\* A step of the loop in which the key is delivered: the frame is one that
\* frame skipping passes over, or one that is processed.
KeyDelivered(key) ==
    \/ CaptureSkipped(key)
    \/ \E fault \in LoopSaveFaults : Controls(key, fault)

\* C17: a toggle key delivered during a frame, processed or skipped, leaves
\* what the frame has drawn and saved as it is and flips the mode for the
\* frames that follow; between toggles the modes do not change.
C17_TogglesAffectNextFrames ==
    [][/\ KeyDelivered("a") => /\ auto_save' = ~auto_save
                               /\ show_dashboard' = show_dashboard
                               /\ <<saves, db, csv, detected>>' = <<saves, db, csv, detected>>
       /\ KeyDelivered("d") => /\ show_dashboard' = ~show_dashboard
                               /\ auto_save' = auto_save
                               /\ <<saves, db, csv, detected>>' = <<saves, db, csv, detected>>
       /\ ~(KeyDelivered("a") \/ KeyDelivered("d"))
              => <<auto_save, show_dashboard>>' = <<auto_save, show_dashboard>>]_vars

\* Startup stopped at validate_config, at init_database or at the loading of
\* the detector model.
StartupFailed ==
    /\ last.op = "startup"
    /\ last.step \in {"validate_config", "init_database", "load_cascade"}
    /\ ~last.ok

\* C18: when validate_config reports an error, or the store fails to
\* initialise, or the detector model fails to load, main has returned: the
\* capture device was never opened, no frame was captured or processed and
\* nothing was handed to save_detection; and the capture device is opened
\* only under a configuration validate_config accepts.
C18_StartupErrorsFatal ==
    /\ StartupFailed
          => /\ pc = "exit"
             /\ camera = "closed"
             /\ frame_count = 0
             /\ hist = <<>> /\ display = <<>>
             /\ saves = <<>> /\ db = <<>> /\ detected = <<>>
    /\ camera # "closed" => FRAME_SKIP >= 1

\* validate_config reports the out-of-range auto-save threshold and nothing
\* else, and main has returned.
C18_Witness ==
    /\ StartupFailed
    /\ last.errors = <<"AUTO_SAVE_THRESHOLD must be between 0.0 and 1.0">>
    /\ pc = "exit"
    /\ camera = "closed"

(***************************************************************************)
(* Calls of save_detection and get_statistics, looked at for what becomes  *)
(* of the connection each opens.  finalized is a choice only where a       *)
(* connection is abandoned.                                                *)
(***************************************************************************)
SaveDetectionReturns(det, fault, finalized) ==
    /\ Len(saves) < MaxSaves
    /\ finalized \/ fault \in {"insert", "commit"}
    /\ LET plate_data == PlateData(det, "Auto")
           r == save_detection(db, csv, plate_data, fault)
       IN  /\ db' = r.db
           /\ csv' = r.csv
           /\ saves' = Append(saves, [data |-> plate_data, fault |-> fault,
                                      ret |-> r.ret])
           /\ last' = [op |-> "save_detection", fault |-> fault, ret |-> r.ret,
                       conn |-> ConnectionAfterSave(fault, finalized)]
    /\ UNCHANGED <<clockVars, dupVars, perfVars, loopVars, input>>

GetStatisticsReturns(fault, finalized) ==
    /\ finalized \/ fault \in {"count", "distinct", "avg"}
    /\ LET r == get_statistics(db, today, fault)
       IN  last' = [op |-> "get_statistics", fault |-> fault, ret |-> r.ret,
                    conn |-> ConnectionAfterStatistics(fault, finalized)]
    /\ UNCHANGED <<clockVars, dupVars, perfVars, storeVars, loopVars, input>>

NextConnections ==
    \/ \E det \in Detections, fault \in SaveFaults, finalized \in BOOLEAN :
            SaveDetectionReturns(det, fault, finalized)
    \/ \E fault \in StatsFaults, finalized \in BOOLEAN :
            GetStatisticsReturns(fault, finalized)

SpecConnections == InitStore /\ [][NextConnections]_vars

\* C19: when a save_detection or get_statistics call returns, at whatever
\* step it failed, the connection it opened is released.
C19_ConnectionsScoped ==
    last.op \in {"save_detection", "get_statistics"}
        => last.conn \in {"none", "closed", "finalized"}

\* C20: a step that consumes the quit key, in a processed or a skipped frame,
\* or in which the capture device yields no frame, ends the loop; from then
\* on no frame is captured, nothing is detected, drawn or handed to the
\* tracker or to save_detection; the capture device is released and then the
\* session summary is emitted, with the statistics and the frame rate of the
\* end of the session.
C20_LoopTermination ==
    [][/\ (KeyDelivered("q") \/ CaptureFails) => pc' = "cleanup"
       /\ pc \in {"cleanup", "summary"}
             => /\ UNCHANGED <<frame_count, plates, display, hist>>
                /\ UNCHANGED <<detected, saves, db, csv>>
       /\ pc = "cleanup" => camera' = "released" /\ pc' = "summary"
       /\ pc = "summary"
             => /\ camera' = "released"
                /\ pc' = "done"
                /\ last'.op = "summary"
                /\ last'.ret = get_statistics(db, today, last'.fault).ret
                /\ last'.fps = get_fps(frame_times).value]_vars

\* C21: get_fps returns a value and does not raise, whatever durations, each
\* at least 0, were recorded: the windows whose durations are all 0 included.
C21_GetFpsTotal ==
    last.op = "get_fps" => ~last.raises

(***************************************************************************)
(* Calls of save_detection with every failure of the store and of the      *)
(* export, over two days.                                                  *)
(***************************************************************************)
NextExport ==
    \/ \E det \in Detections, fault \in ExportFaults : SaveDetectionCall(det, fault)
    \/ NewDay

SpecExport == InitStore /\ [][NextExport]_vars

\* s is t with some of its elements left out.
RECURSIVE IsSubsequence(_, _)
IsSubsequence(s, t) ==
    IF s = <<>> THEN TRUE
    ELSE IF t = <<>> THEN FALSE
    ELSE IF Head(s) = Head(t) THEN IsSubsequence(Tail(s), Tail(t))
    ELSE IsSubsequence(s, Tail(t))

\* The export rows the records of the plates table would make, in order.
StoreAsExportRows == [j \in 1..Len(db) |-> CsvRow(ColumnsOf(db[j]))]

\* The lines of the export file that are not the header.
ExportDataRows == SelectSeq(csv.rows, LAMBDA line : line # CsvHeader)

\* C22: after any sequence of save_detection calls from an empty store and no
\* export file, whatever failed in them, the data rows of the export file
\* are in order a subsequence of the records of the plates table, and a file
\* that holds a line has the header as its first line and nowhere else.
C22_ExportNeverAhead ==
    /\ ~csv.exists => csv.rows = <<>>
    /\ IsSubsequence(ExportDataRows, StoreAsExportRows)
    /\ csv.rows # <<>>
          => /\ csv.rows[1] = CsvHeader
             /\ \A i \in 2..Len(csv.rows) : csv.rows[i] # CsvHeader

====
